---------------------------- MODULE Spec2Model ----------------------------
(***************************************************************************)
(* A model of the supabase-py client facade (supabase/client.py and        *)
(* supabase/async_client.py): construction-time validation, derivation of  *)
(* the five endpoint URLs, the merge of the auth headers into the options' *)
(* header dict, and the accessors.                                         *)
(*                                                                         *)
(* Python strings are sequences of one-character strings.  Python objects  *)
(* that are shared by reference (dicts, ClientOptions instances, facades,  *)
(* sub-clients) live in sequences used as heaps; a reference is an index.  *)
(***************************************************************************)
EXTENDS Integers, Sequences, FiniteSets, TLC

VARIABLES dicts, options, facades, clients, last

vars == <<dicts, options, facades, clients, last>>

-----------------------------------------------------------------------------
(* Bounds of the model.                                                    *)

MaxObjects == 3
MaxKeyLen == 4

-----------------------------------------------------------------------------
(* Characters and string literals.                                         *)

Lower == {"a","b","c","d","e","f","g","h","i","j","k","l","m",
          "n","o","p","q","r","s","t","u","v","w","x","y","z"}
Upper == {"A","B","C","D","E","F","G","H","I","J","K","L","M",
          "N","O","P","Q","R","S","T","U","V","W","X","Y","Z"}
Digit == {"0","1","2","3","4","5","6","7","8","9"}
Alnum == Lower \cup Upper \cup Digit
Chars == Alnum \cup {"-", "_", "=", ".", "+", "/", ":", " ", "!", "\n"}

S_http     == <<"h","t","t","p">>
S_https    == <<"h","t","t","p","s">>
S_ftp      == <<"f","t","p">>
S_ws       == <<"w","s">>
S_sep      == <<":","/","/">>
S_dot      == <<".">>
S_supabase == <<"s","u","p","a","b","a","s","e">>
S_abcxyz   == <<"a","b","c","x","y","z">>
S_example  == <<"e","x","a","m","p","l","e">>
S_co       == <<"c","o">>
S_in       == <<"i","n">>
S_com      == <<"c","o","m">>
S_localhost == <<"l","o","c","a","l","h","o","s","t">>
S_functions == <<"f","u","n","c","t","i","o","n","s">>
S_Bearer   == <<"B","e","a","r","e","r"," ">>
S_rest_v1      == <<"/","r","e","s","t","/","v","1">>
S_realtime_v1  == <<"/","r","e","a","l","t","i","m","e","/","v","1">>
S_auth_v1      == <<"/","a","u","t","h","/","v","1">>
S_storage_v1   == <<"/","s","t","o","r","a","g","e","/","v","1">>
S_functions_v1 == <<"/","f","u","n","c","t","i","o","n","s","/","v","1">>

(* An argument that may be None: Python's Optional[str].                   *)
None   == [some |-> FALSE, v |-> <<>>]
Str(s) == [some |-> TRUE, v |-> s]

(* Python truthiness of an Optional[str]: None and "" are falsy.           *)
Truthy(x) == x.some /\ x.v # <<>>

-----------------------------------------------------------------------------
(* str methods.                                                            *)

StartsWith(s, p) == Len(s) >= Len(p) /\ SubSeq(s, 1, Len(p)) = p

EndsWith(s, p) == Len(s) >= Len(p) /\ SubSeq(s, Len(s) - Len(p) + 1, Len(s)) = p

(* s[i:] with a 1-based i.                                                 *)
Suffix(s, i) == SubSeq(s, i, Len(s))

(* str.replace(old, new): every non-overlapping occurrence, left to right. *)
RECURSIVE Replace(_, _, _)
Replace(s, old, new) ==
  IF s = <<>> THEN <<>>
  ELSE IF StartsWith(s, old)
       THEN new \o Replace(Suffix(s, Len(old) + 1), old, new)
       ELSE <<Head(s)>> \o Replace(Tail(s), old, new)

(* str.split(c) for a one-character separator: a list of the pieces,       *)
(* empty pieces included.                                                  *)
RECURSIVE Split(_, _)
Split(s, c) ==
  IF \A i \in 1..Len(s) : s[i] # c THEN <<s>>
  ELSE LET i == CHOOSE j \in 1..Len(s) :
                  s[j] = c /\ \A m \in 1..(j - 1) : s[m] # c
       IN <<SubSeq(s, 1, i - 1)>> \o Split(Suffix(s, i + 1), c)

-----------------------------------------------------------------------------
(* The re module, for the patterns the facade uses.  A pattern is a        *)
(* sequence of items [cls, q]: a character class and a quantifier          *)
(* ("1", "?", "+", "*"), or the item EOS for "$".  Positions count the     *)
(* characters consumed so far.                                             *)

One(c)     == [cls |-> {c}, q |-> "1"]
Item(C, q) == [cls |-> C, q |-> q]
EOS        == [cls |-> {}, q |-> "$"]

(* "." without DOTALL: any character except a line break.                  *)
Dot == Chars \ {"\n"}

(* The positions an item can end at when it starts at position p.          *)
Ends(it, s, p) ==
  LET run(e) == \A i \in (p + 1)..e : s[i] \in it.cls
  IN CASE it.q = "1" -> {e \in {p + 1} : e <= Len(s) /\ run(e)}
       [] it.q = "?" -> {p} \cup {e \in {p + 1} : e <= Len(s) /\ run(e)}
       [] it.q = "+" -> {e \in (p + 1)..Len(s) : run(e)}
       [] it.q = "*" -> {e \in p..Len(s) : run(e)}
       (* "$" without MULTILINE: at the end, or before a final line break. *)
       [] it.q = "$" -> {e \in {p} : p = Len(s)
                                     \/ (p = Len(s) - 1 /\ s[Len(s)] = "\n")}

RECURSIVE Run(_, _, _, _)
Run(pat, k, s, P) ==
  IF k > Len(pat) THEN P
  ELSE Run(pat, k + 1, s, UNION {Ends(pat[k], s, p) : p \in P})

(* re.match(pat, s): the pattern matches at the start of s.                *)
ReMatch(pat, s) == Run(pat, 1, s, {0}) # {}

(* re.search(pat, s): the pattern matches somewhere in s.                  *)
ReSearch(pat, s) == Run(pat, 1, s, 0..Len(s)) # {}

Lit(w) == [i \in 1..Len(w) |-> One(w[i])]

(* r"^(https?)://.+" *)
URL_PATTERN ==
  Lit(S_http) \o <<Item({"s"}, "?")>> \o Lit(S_sep) \o <<Item(Dot, "+")>>

(* [A-Za-z0-9-_=] and [A-Za-z0-9-_.+/=] *)
KeyClass  == Alnum \cup {"-", "_", "="}
TailClass == Alnum \cup {"-", "_", ".", "+", "/", "="}

(* r"^[A-Za-z0-9-_=]+\.[A-Za-z0-9-_=]+\.?[A-Za-z0-9-_.+/=]*$" *)
KEY_PATTERN ==
  <<Item(KeyClass, "+"), One("."), Item(KeyClass, "+"),
    Item({"."}, "?"), Item(TailClass, "*"), EOS>>

(* r"(supabase\.co)|(supabase\.in)" *)
PLATFORM_CO == Lit(S_supabase \o S_dot \o S_co)
PLATFORM_IN == Lit(S_supabase \o S_dot \o S_in)
IsPlatform(url) == ReSearch(PLATFORM_CO, url) \/ ReSearch(PLATFORM_IN, url)

-----------------------------------------------------------------------------
(* A merge that keeps d's entries where both have one.                     *)
DictUpdate_KeepExisting(d, other) ==
  [n \in (DOMAIN d) \cup (DOMAIN other) |->
     IF n \in DOMAIN d THEN d[n] ELSE other[n]]

(* dict.update(other): other's entries are written over d's, in place.     *)
DictUpdate(d, other) ==
  [n \in (DOMAIN d) \cup (DOMAIN other) |->
     IF n \in DOMAIN other THEN other[n] ELSE d[n]]

EmptyDict == [n \in {} |-> <<>>]

(* The postgrest package's default timeout, an imported value.             *)
DEFAULT_POSTGREST_CLIENT_TIMEOUT == "DEFAULT_POSTGREST_CLIENT_TIMEOUT"

(* SupabaseException messages, and the IndexError of a list subscript.     *)
ERR_URL_REQUIRED == "supabase_url is required"
ERR_KEY_REQUIRED == "supabase_key is required"
ERR_INVALID_URL  == "Invalid URL"
ERR_INVALID_KEY  == "Invalid API key"
INDEX_ERROR      == "IndexError: list index out of range"
NoError          == "none"

SupabaseExceptions ==
  {ERR_URL_REQUIRED, ERR_KEY_REQUIRED, ERR_INVALID_URL, ERR_INVALID_KEY}

(* _get_auth_headers: a new dict literal on every call.                    *)
GetAuthHeaders(self) ==
  [apiKey |-> self.supabase_key,
   Authorization |-> S_Bearer \o self.supabase_key]

(* _init_supabase_auth_client: the auth client receives the options'       *)
(* header dict itself (a reference), not a copy.                           *)
InitSupabaseAuthClient(auth_url, client_options) ==
  [url |-> auth_url,
   auto_refresh_token |-> client_options.auto_refresh_token,
   persist_session |-> client_options.persist_session,
   local_storage |-> client_options.local_storage,
   headers |-> client_options.headers]

(* _init_postgrest_client, with its timeout parameter.                     *)
InitPostgrestClient(rest_url, supabase_key, headers, schema, timeout) ==
  [url |-> rest_url, headers |-> headers, schema |-> schema,
   timeout |-> timeout, token |-> supabase_key]

(* realtime_url: f"{supabase_url}/realtime/v1".replace("http", "ws")       *)
RealtimeUrl(supabase_url) == Replace(supabase_url \o S_realtime_v1, S_http, S_ws)

(* The outcome of a raise inside __init__: the attributes assigned so far  *)
(* and the heap as it is at that point.                                    *)
Raised(e, self, ds) == [raised |-> e, self |-> self, dicts |-> ds]

(* Validate with the two pattern checks exchanged.                         *)
Validate_KeyPatternFirst(supabase_url, supabase_key) ==
  IF ~Truthy(supabase_url) THEN ERR_URL_REQUIRED
  ELSE IF ~Truthy(supabase_key) THEN ERR_KEY_REQUIRED
  ELSE IF ~ReMatch(KEY_PATTERN, supabase_key.v) THEN ERR_INVALID_KEY
  ELSE IF ~ReMatch(URL_PATTERN, supabase_url.v) THEN ERR_INVALID_URL
  ELSE NoError

(* The four checks at the head of __init__, in the order of the code: the  *)
(* message of the SupabaseException raised, or NoError.                    *)
Validate(supabase_url, supabase_key) ==
  IF ~Truthy(supabase_url) THEN ERR_URL_REQUIRED
  ELSE IF ~Truthy(supabase_key) THEN ERR_KEY_REQUIRED
  ELSE IF ~ReMatch(URL_PATTERN, supabase_url.v) THEN ERR_INVALID_URL
  ELSE IF ~ReMatch(KEY_PATTERN, supabase_key.v) THEN ERR_INVALID_KEY
  ELSE NoError

(* The body of __init__ after the checks, on the options object opt (a     *)
(* reference into os) and the dict heap ds.                                *)
Wire(url, key, opt, ds, os) ==
  LET self1 == [supabase_url |-> url, supabase_key |-> key]
      ds1 == [ds EXCEPT ![os[opt].headers] = DictUpdate(@, GetAuthHeaders(self1))]
      self2 == self1 @@
               [rest_url |-> url \o S_rest_v1,
                realtime_url |-> RealtimeUrl(url),
                auth_url |-> url \o S_auth_v1,
                storage_url |-> url \o S_storage_v1]
      url_parts == Split(url, ".")
  IN IF IsPlatform(url) /\ Len(url_parts) < 3
     (* url_parts[1] or url_parts[2] is out of range *)
     THEN Raised(INDEX_ERROR, self2, ds1)
     ELSE
       LET functions_url ==
             IF IsPlatform(url)
             THEN url_parts[1] \o S_dot \o S_functions \o S_dot
                  \o url_parts[2] \o S_dot \o url_parts[3]
             ELSE url \o S_functions_v1
           self3 == self2 @@
                    [functions_url |-> functions_url, schema |-> os[opt].schema]
           auth == InitSupabaseAuthClient(self3.auth_url, os[opt])
           postgrest ==
             InitPostgrestClient(self3.rest_url, self3.supabase_key,
                                 os[opt].headers, os[opt].schema,
                                 DEFAULT_POSTGREST_CLIENT_TIMEOUT)
       IN Raised(NoError,
                 self3 @@ [auth |-> auth, realtime |-> "None",
                           postgrest |-> postgrest],
                 ds1)

(* __init__ with the header merge placed above the two pattern checks.     *)
ClientInit_EarlyMerge(supabase_url, supabase_key, opt, ds, os) ==
  LET e == Validate(supabase_url, supabase_key)
      self1 == [supabase_url |-> supabase_url.v, supabase_key |-> supabase_key.v]
  IN IF e = NoError THEN Wire(supabase_url.v, supabase_key.v, opt, ds, os)
     ELSE IF e \in {ERR_INVALID_URL, ERR_INVALID_KEY}
          THEN Raised(e, self1,
                      [ds EXCEPT ![os[opt].headers] =
                                   DictUpdate(@, GetAuthHeaders(self1))])
          ELSE Raised(e, EmptyDict, ds)

(* SupabaseClient.__init__ / AsyncSupabaseClient.__init__.                 *)
ClientInit(supabase_url, supabase_key, opt, ds, os) ==
  LET e == Validate(supabase_url, supabase_key)
  IN IF e # NoError THEN Raised(e, EmptyDict, ds)
     ELSE Wire(supabase_url.v, supabase_key.v, opt, ds, os)

-----------------------------------------------------------------------------
(* The accessors.  storage() and functions() construct a sub-client from   *)
(* (url, headers); the headers are the dict _get_auth_headers() has just   *)
(* created, so the call allocates a dict and a client.  The field "of" is  *)
(* a ghost: the facade the call was made on.                               *)

NewSubClient(kind, f, url, headers, ds, cs) ==
  [dicts |-> Append(ds, headers),
   clients |-> Append(cs, [kind |-> kind, of |-> f, url |-> url,
                           headers |-> Len(ds) + 1]),
   ret |-> Len(cs) + 1]

functions(f, fs, ds, cs) ==
  NewSubClient("functions", f, fs[f].functions_url, GetAuthHeaders(fs[f]), ds, cs)

(* storage() that keeps the client of its first call.                      *)
storage_cached(f, fs, ds, cs) ==
  LET mine == {c \in 1..Len(cs) : cs[c].kind = "storage" /\ cs[c].of = f}
  IN IF mine # {}
     THEN [dicts |-> ds, clients |-> cs, ret |-> CHOOSE c \in mine : TRUE]
     ELSE NewSubClient("storage", f, fs[f].storage_url, GetAuthHeaders(fs[f]), ds, cs)

storage(f, fs, ds, cs) ==
  NewSubClient("storage", f, fs[f].storage_url, GetAuthHeaders(fs[f]), ds, cs)

(* self.postgrest.from_(name) and self.postgrest.rpc(fn, params): the      *)
(* builders of the query-builder client the facade holds.                  *)
from_(self, table_name) ==
  [builder |-> "from_", session |-> self.postgrest, table |-> table_name]

table(self, table_name) == from_(self, table_name)

rpc(self, fn, params) ==
  [builder |-> "rpc", session |-> self.postgrest, fn |-> fn, params |-> params]

-----------------------------------------------------------------------------
(* Inputs.                                                                 *)

Variants == {"sync", "async"}

K_abc == <<"a", ".", "b", ".", "c">>
K_xyz == <<"x", ".", "y", ".", "z">>
K_old == <<"o", "l", "d">>
K_aaa_bbb == <<"a", "a", "a", ".", "b", "b", "b">>

S_my == <<"m", "y">>
S_a  == <<"a">>
S_b  == <<"b">>
S_io == <<"i", "o">>

H_example  == S_example \o S_dot \o S_com
H_platform == S_abcxyz \o S_dot \o S_supabase \o S_dot \o S_co

U_short    == S_http \o S_sep \o S_a \o S_dot \o S_io
U_example  == S_https \o S_sep \o H_example

(* The arguments of the calls of Spec.                                     *)
URLs == {Str(U_short), Str(S_ftp \o S_sep \o S_a), None}
Keys == {Str(K_abc), Str(K_xyz), Str(K_old), Str(<<>>)}

(* The arguments of the calls of SpecDerive: hosts on and off the hosted   *)
(* platform, with one, two, three and four labels, with and without a      *)
(* path, with an inner "http"; and strings that are not http(s) URLs.      *)
Schemes == {S_http, S_https}
Hosts ==
  {H_example, H_platform,
   S_abcxyz \o S_dot \o S_supabase \o S_dot \o S_in,
   S_abcxyz \o S_dot \o S_supabase \o S_dot \o S_com,
   S_supabase \o S_dot \o S_co,
   S_localhost,
   S_my \o S_http \o S_dot \o H_example,
   S_a \o S_dot \o S_b \o S_dot \o S_supabase \o S_dot \o S_co}
Paths ==
  {<<>>,
   <<"/">> \o S_supabase \o S_dot \o S_co,
   <<"/">> \o S_http \o S_dot \o S_a}
HttpURLs == {sch \o S_sep \o h \o p : sch \in Schemes, h \in Hosts, p \in Paths}
OtherURLs ==
  {<<>>, S_http \o S_sep, S_https \o S_sep, S_http \o S_sep \o <<"\n">>,
   S_http \o S_sep \o <<"/">>,
   S_ftp \o S_sep \o H_example, H_example, H_platform,
   <<"x">> \o U_example, S_http \o <<":", "/">> \o H_example,
   <<"H", "T", "T", "P">> \o S_sep \o H_example}
DeriveURLs == {Str(u) : u \in HttpURLs \cup OtherURLs} \cup {None}

(* Every key of at most MaxKeyLen characters over an alphabet with one     *)
(* character of each kind the key pattern tells apart, and two longer.     *)
KeyAlphabet == {"a", ".", "+", "\n"}
ShortKeys == UNION {[1..n -> KeyAlphabet] : n \in 0..MaxKeyLen}
DeriveKeys == {Str(k) : k \in ShortKeys \cup {K_aaa_bbb, K_abc}} \cup {None}

(* The headers and timeouts a caller builds a ClientOptions with.          *)
CallerHeaders == {[apiKey |-> K_old, XCustom |-> <<"v">>]}
Timeouts == {"10s"}

(* ClientOptions(headers=h, timeout=t), the other fields at their          *)
(* defaults; h is the reference of the header dict.                        *)
ClientOptions(h, t) ==
  [headers |-> h, schema |-> "public", timeout |-> t,
   auto_refresh_token |-> TRUE, persist_session |-> TRUE,
   local_storage |-> "SyncMemoryStorage"]

(* The default argument "options: ClientOptions = ClientOptions()" is      *)
(* evaluated once, when the def statement runs: one instance per class.    *)
DefaultOptions(variant) == IF variant = "sync" THEN 1 ELSE 2

-----------------------------------------------------------------------------
(* The state machine.                                                      *)

NoCall == [op |-> "none"]

Objects == (Len(options) - 2) + Len(facades) + Len(clients)

Init ==
  /\ dicts = <<EmptyDict, EmptyDict>>
  /\ options = <<ClientOptions(1, "unspecified"), ClientOptions(2, "unspecified")>>
  /\ facades = <<>>
  /\ clients = <<>>
  /\ last = NoCall

(* The caller creates an options object.                                   *)
NewOptions(h, t) ==
  /\ Objects < MaxObjects
  /\ dicts' = Append(dicts, h)
  /\ options' = Append(options, ClientOptions(Len(dicts) + 1, t))
  /\ last' = [op |-> "ClientOptions", raised |-> NoError, ret |-> Len(options) + 1]
  /\ UNCHANGED <<facades, clients>>

(* SupabaseClient(url, key[, options]) / AsyncSupabaseClient(...).         *)
(* optArg = 0 stands for an omitted options argument.                      *)
(* The fields "variant" (the class) and "options" (the options object     *)
(* the facade was built from) of a facade are ghosts.                      *)
Construct(variant, url, key, optArg) ==
  LET opt == IF optArg = 0 THEN DefaultOptions(variant) ELSE optArg
      r == ClientInit(url, key, opt, dicts, options)
  IN /\ dicts' = r.dicts
     /\ facades' = IF r.raised = NoError
                   THEN Append(facades, r.self @@ [variant |-> variant, options |-> opt])
                   ELSE facades
     /\ last' = [op |-> "init", variant |-> variant, url |-> url, key |-> key,
                 options |-> opt, raised |-> r.raised, attrs |-> DOMAIN r.self,
                 ret |-> IF r.raised = NoError THEN Len(facades) + 1 ELSE 0]
     /\ UNCHANGED <<options, clients>>

New ==
  /\ Objects < MaxObjects
  /\ \E variant \in Variants, url \in URLs, key \in Keys,
        optArg \in {0} \cup (3..Len(options)) :
       Construct(variant, url, key, optArg)

Functions(f) ==
  /\ Objects < MaxObjects
  /\ LET r == functions(f, facades, dicts, clients)
     IN /\ dicts' = r.dicts
        /\ clients' = r.clients
        /\ last' = [op |-> "functions", self |-> f, raised |-> NoError, ret |-> r.ret]
  /\ UNCHANGED <<options, facades>>

Storage(f) ==
  /\ Objects < MaxObjects
  /\ LET r == storage(f, facades, dicts, clients)
     IN /\ dicts' = r.dicts
        /\ clients' = r.clients
        /\ last' = [op |-> "storage", self |-> f, raised |-> NoError, ret |-> r.ret]
  /\ UNCHANGED <<options, facades>>

Table(f) ==
  /\ last' = [op |-> "table", self |-> f, raised |-> NoError,
              ret |-> table(facades[f], "users")]
  /\ UNCHANGED <<dicts, options, facades, clients>>

FromTable(f) ==
  /\ last' = [op |-> "from_", self |-> f, raised |-> NoError,
              ret |-> from_(facades[f], "users")]
  /\ UNCHANGED <<dicts, options, facades, clients>>

Rpc(f) ==
  /\ last' = [op |-> "rpc", self |-> f, raised |-> NoError,
              ret |-> rpc(facades[f], "fn", "params")]
  /\ UNCHANGED <<dicts, options, facades, clients>>

Next ==
  \/ \E h \in CallerHeaders, t \in Timeouts : NewOptions(h, t)
  \/ New
  \/ \E f \in 1..Len(facades) : Functions(f)
  \/ \E f \in 1..Len(facades) : Storage(f)
  \/ \E f \in 1..Len(facades) : Table(f)
  \/ \E f \in 1..Len(facades) : FromTable(f)
  \/ \E f \in 1..Len(facades) : Rpc(f)

Spec == Init /\ [][Next]_vars

(* One construction call with an omitted options argument in a fresh       *)
(* interpreter, over the wide input sets.                                  *)
NewOnce ==
  /\ last = NoCall
  /\ \E variant \in Variants, url \in DeriveURLs, key \in DeriveKeys :
       Construct(variant, url, key, 0)

NextDerive == NewOnce

SpecDerive == Init /\ [][NextDerive]_vars

-----------------------------------------------------------------------------
(* Properties.                                                             *)

Constructed == last.op = "init" /\ last.raised = NoError

(* The validation checks as the specification words them.                  *)
Missing(x) == ~x.some \/ Len(x.v) = 0

(* http://... or https://...: the scheme, "://" and at least one more      *)
(* character on the same line.                                             *)
HasHttpForm(s) ==
  \E sch \in {S_http, S_https} :
    /\ StartsWith(s, sch \o S_sep)
    /\ Len(s) > Len(sch) + 3
    /\ s[Len(sch) + 4] # "\n"

FirstViolated(url, key) ==
  IF Missing(url) THEN ERR_URL_REQUIRED
  ELSE IF Missing(key) THEN ERR_KEY_REQUIRED
  ELSE IF ~HasHttpForm(url.v) THEN ERR_INVALID_URL
  ELSE IF ~ReMatch(KEY_PATTERN, key.v) THEN ERR_INVALID_KEY
  ELSE NoError

SegmentChars == Alnum \cup {"-", "_", "=", "+", "/"}

ThreeSegments(k) ==
  LET parts == Split(k, ".")
  IN /\ Len(parts) = 3
     /\ \A i \in 1..3 :
          /\ parts[i] # <<>>
          /\ \A j \in 1..Len(parts[i]) : parts[i][j] \in SegmentChars

(* C2: a key that does not have the three-segment shape makes              *)
(* construction fail with a SupabaseException.                             *)
C2_MalformedKeyRejected ==
  (last.op = "init" /\ ~Missing(last.key) /\ ~ThreeSegments(last.key.v))
    => last.raised \in SupabaseExceptions

(* The base URL with only its leading scheme rewritten: http -> ws,        *)
(* https -> wss.                                                           *)
LeadingSchemeToWs(url) == S_ws \o Suffix(url, Len(S_http) + 1)

(* C3: the realtime URL of every facade is its base URL with the leading   *)
(* scheme rewritten and every other character unchanged, followed by       *)
(* /realtime/v1.                                                           *)
C3_RealtimeLeadingSchemeOnly ==
  \A f \in 1..Len(facades) :
    facades[f].realtime_url
      = LeadingSchemeToWs(facades[f].supabase_url) \o S_realtime_v1

(* The host of an http(s) URL: what follows "://", up to the next "/".     *)
AfterScheme(url) ==
  Suffix(url, (IF StartsWith(url, S_https) THEN Len(S_https) ELSE Len(S_http)) + 4)

Host(url) == Split(AfterScheme(url), "/")[1]

PlatformHost(h) ==
  \E tld \in {S_co, S_in} :
    LET d == S_supabase \o S_dot \o tld
    IN h = d \/ EndsWith(h, S_dot \o d)

(* C4: the functions URL is <label0>.functions.<label1>.<label2> of the    *)
(* host's labels if the host ends in supabase.co or supabase.in, and       *)
(* <base>/functions/v1 for every other base URL.                           *)
C4_FunctionsTwoCaseRule ==
  \A f \in 1..Len(facades) :
    LET url == facades[f].supabase_url
        labels == Split(Host(url), ".")
    IN IF PlatformHost(Host(url))
       THEN Len(labels) >= 3 =>
              facades[f].functions_url
                = labels[1] \o S_dot \o S_functions \o S_dot
                  \o labels[2] \o S_dot \o labels[3]
       ELSE facades[f].functions_url = url \o S_functions_v1

(* What a step that is a successful construction establishes.             *)
C5_Step ==
  (last'.op = "init" /\ last'.raised = NoError) =>
    LET self == facades'[last'.ret]
        h == options[last'.options].headers
    IN /\ self.auth.headers = h
       /\ self.postgrest.headers = h
       /\ dicts'[h].apiKey = last'.key.v
       /\ dicts'[h].Authorization = S_Bearer \o last'.key.v
       /\ \A n \in (DOMAIN dicts[h]) \ {"apiKey", "Authorization"} :
            n \in DOMAIN dicts'[h] /\ dicts'[h][n] = dicts[h][n]

(* C5: a successful construction with key K leaves, in the header dict     *)
(* handed to the auth and the query-builder client (the options' own       *)
(* dict), apiKey = K and Authorization = "Bearer K", and every other       *)
(* header the dict held before with its value.                             *)
C5_MergedHeaders == [][C5_Step]_vars

(* A facade built on caller options that carried apiKey = "old" and        *)
(* another header.                                                         *)
C5_Witness ==
  /\ Constructed
  /\ last.options >= 3
  /\ last.key.v # K_old
  /\ "XCustom" \in DOMAIN dicts[options[last.options].headers]
  /\ dicts[options[last.options].headers].apiKey = last.key.v

(* What a step that is a construction failing a check leaves alone.        *)
C6_Step ==
  (last'.op = "init" /\ last'.raised \in SupabaseExceptions) =>
    /\ UNCHANGED <<dicts, options, facades, clients>>
    /\ last'.attrs = {}
    /\ last'.ret = 0

(* C6: a construction that fails one of the four checks changes nothing:   *)
(* no dict, options object, facade or sub-client is created or changed,    *)
(* and no attribute of the new object has been set.                        *)
C6_AtomicValidation == [][C6_Step]_vars

(* A construction on caller options that fails on the last check.          *)
C6_Witness ==
  /\ last.op = "init"
  /\ last.raised = ERR_INVALID_KEY
  /\ last.options >= 3

(* A step that leaves every constructed facade and its header dict alone. *)
C7_Step ==
  \A f \in 1..Len(facades) :
    /\ facades'[f] = facades[f]
    /\ dicts'[facades[f].auth.headers] = dicts[facades[f].auth.headers]
    /\ dicts'[facades[f].postgrest.headers] = dicts[facades[f].postgrest.headers]

(* C7: no step changes a constructed facade, nor the header dict it passed *)
(* to its auth and query-builder clients.                                  *)
C7_FacadeImmutable == [][C7_Step]_vars

(* Every accessor-built client has its facade's URL and a header dict of   *)
(* its own holding exactly the two auth headers.                           *)
C8_Clients ==
  \A c \in 1..Len(clients) :
    LET self == facades[clients[c].of]
    IN /\ clients[c].url = IF clients[c].kind = "storage"
                           THEN self.storage_url ELSE self.functions_url
       /\ dicts[clients[c].headers]
            = [apiKey |-> self.supabase_key,
               Authorization |-> S_Bearer \o self.supabase_key]
       /\ \A o \in 1..Len(options) : options[o].headers # clients[c].headers
       /\ \A d \in 1..Len(clients) : d # c => clients[d].headers # clients[c].headers

(* A storage() or functions() step returns a new client and changes        *)
(* nothing that existed.                                                   *)
C8_Step ==
  (last'.op \in {"storage", "functions"}) =>
    /\ last'.ret \notin 1..Len(clients)
    /\ last'.ret \in 1..Len(clients')
    /\ clients'[last'.ret].of = last'.self
    /\ clients'[last'.ret].kind = last'.op
    /\ UNCHANGED <<facades, options>>
    /\ \A d \in 1..Len(dicts) : dicts'[d] = dicts[d]
    /\ \A c \in 1..Len(clients) : clients'[c] = clients[c]

(* C8: every storage() and functions() call returns a client that did not  *)
(* exist before, with the facade's storage (functions) URL and a header    *)
(* dict of its own holding exactly apiKey and Authorization; it changes    *)
(* no facade, options object or existing dict or client.                   *)
C8_FreshSubClients == [](C8_Clients) /\ [][C8_Step]_vars

(* Two storage clients of one facade.                                      *)
C8_Witness ==
  \E c, d \in 1..Len(clients) :
    /\ c # d
    /\ clients[c].of = clients[d].of
    /\ clients[c].kind = "storage" /\ clients[d].kind = "storage"
    /\ last.op = "storage"

(* C9: the query-builder client of every facade has the timeout of the     *)
(* options it was built from, and the collaborator's default only when     *)
(* the options specify none.                                               *)
C9_TimeoutPassedThrough ==
  \A f \in 1..Len(facades) :
    LET t == options[facades[f].options].timeout
    IN facades[f].postgrest.timeout
         = IF t = "unspecified" THEN DEFAULT_POSTGREST_CLIENT_TIMEOUT ELSE t

(* C10: a construction whose arguments pass the four checks completes and  *)
(* assigns the five endpoint URLs; construction never ends in an error     *)
(* other than a SupabaseException.                                         *)
C10_DerivationTotal ==
  last.op = "init" =>
    /\ last.raised \in SupabaseExceptions \cup {NoError}
    /\ Validate(last.url, last.key) = NoError =>
         /\ last.raised = NoError
         /\ {"rest_url", "realtime_url", "auth_url", "storage_url",
             "functions_url"} \subseteq last.attrs

=============================================================================
